---- MODULE Spec2Model ----
(***************************************************************************)
(* A model of optuna/visualization/_utils.py: the helper routines of the   *)
(* visualization layer.  Every helper is a synchronous function of its     *)
(* arguments; one call is modelled as a small state machine whose state is *)
(* the arguments, the locals, the warnings emitted so far and the outcome  *)
(* (still running, returned, raised).  Each helper has its own             *)
(* specification, whose Init draws the arguments from bounded sets.        *)
(***************************************************************************)
EXTENDS Integers, Sequences, FiniteSets, TLC

VARIABLES
    fn,       \* the helper being called
    args,     \* its arguments (a record, one field per parameter)
    locals,   \* its local variables (a record)
    pc,       \* a source position while running, then "returned" or "raised"
    exc,      \* the exception that left the call ("None" while there is none)
    warned,   \* the warnings and log records emitted so far, in order
    ret       \* the returned value (meaningful only when pc = "returned")

vars == <<fn, args, locals, pc, exc, warned, ret>>

(***************************************************************************)
(* Bounds of the model.                                                    *)
(***************************************************************************)
MaxStudies == 3
MaxTrials == 2
MaxUsedParams == 2
MaxItems == 2

(***************************************************************************)
(* Python values.  A value is a record tagged with its type; a str is the  *)
(* sequence of its characters.  bool is a subclass of int, as in Python.   *)
(***************************************************************************)
PyNone == [t |-> "None"]
PyInt(n) == [t |-> "int", v |-> n]
PyFloat(f) == [t |-> "float", v |-> f]
PyBool(b) == [t |-> "bool", v |-> b]
PyStr(s) == [t |-> "str", v |-> s]
PyList(items) == [t |-> "list", v |-> items]
PyTuple(items) == [t |-> "tuple", v |-> items]
\* a dict value: the sequence of its <<key, value>> items
PyDict(items) == [t |-> "dict", v |-> items]
\* an object json cannot encode (bytes, complex, a set, ...), by its repr
PyObject(repr) == [t |-> "object", v |-> repr]
\* a list that contains itself: x = []; x.append(x)
PyCycle == [t |-> "cycle"]

\* isinstance(v, (int, float)): bool is an int
IsIntOrFloat(v) == v.t \in {"int", "float", "bool"}
\* isinstance(v, bool)
IsBool(v) == v.t = "bool"

\* Sequences over S of length lo..hi
SeqsBetween(S, lo, hi) == UNION {[1..n -> S] : n \in lo..hi}

\* The keys of a dict held as a sequence of <<key, value>> items (insertion order)
Keys(items) == {items[i][1] : i \in 1..Len(items)}
\* Item sequences over keys K and values V with no key twice: a dict
Dicts(K, V) ==
    {d \in SeqsBetween(K \X V, 0, Cardinality(K)) :
        \A i, j \in 1..Len(d) : i # j => d[i][1] # d[j][1]}
\* d[key] for a key of the dict
Lookup(items, key) == items[CHOOSE i \in 1..Len(items) : items[i][1] = key][2]

(***************************************************************************)
(* Text.  A str (and a JSON text) is a sequence of one-character strings.  *)
(***************************************************************************)
NL == "\n"
QUOTE == "\""
BACKSLASH == "\\"
APOSTROPHE == "'"
Digits == <<"0", "1", "2", "3", "4", "5", "6", "7", "8", "9">>

RECURSIVE ConcatRange(_, _, _)
\* texts[lo] \o ... \o texts[hi], split in halves
ConcatRange(texts, lo, hi) ==
    IF lo > hi THEN <<>>
    ELSE IF lo = hi THEN texts[lo]
    ELSE ConcatRange(texts, lo, (lo + hi) \div 2)
           \o ConcatRange(texts, ((lo + hi) \div 2) + 1, hi)
\* The concatenation of a sequence of texts
Concat(texts) == ConcatRange(texts, 1, Len(texts))

RECURSIVE Join(_, _)
\* sep.join(texts)
Join(sep, texts) ==
    IF texts = <<>> THEN <<>>
    ELSE IF Len(texts) = 1 THEN texts[1]
    ELSE texts[1] \o sep \o Join(sep, Tail(texts))

RECURSIVE IntText(_)
\* str(n) of an int
IntText(n) ==
    IF n < 0 THEN <<"-">> \o IntText(0 - n)
    ELSE IF n < 10 THEN <<Digits[n + 1]>>
    ELSE IntText(n \div 10) \o <<Digits[(n % 10) + 1]>>

\* The floats of the model, by name: float.__repr__
FloatText(f) ==
    CASE f = "1.5" -> <<"1", ".", "5">>
      [] f = "2.0" -> <<"2", ".", "0">>
      [] f = "1.0" -> <<"1", ".", "0">>
      [] f = "nan" -> <<"n", "a", "n">>
      [] f = "inf" -> <<"i", "n", "f">>
      [] f = "-inf" -> <<"-", "i", "n", "f">>

RECURSIVE EscapeRepr(_, _)
\* The body of repr(s) of a str under quote character q
EscapeRepr(s, q) ==
    IF s = <<>> THEN <<>>
    ELSE (CASE Head(s) = BACKSLASH -> <<BACKSLASH, BACKSLASH>>
            [] Head(s) = NL -> <<BACKSLASH, "n">>
            [] Head(s) = q -> <<BACKSLASH, q>>
            [] OTHER -> <<Head(s)>>) \o EscapeRepr(Tail(s), q)

Chars(s) == {s[i] : i \in 1..Len(s)}
\* repr(s) of a str: double quotes only when s holds ' and no "
StrRepr(s) ==
    LET q == IF APOSTROPHE \in Chars(s) /\ QUOTE \notin Chars(s) THEN QUOTE ELSE APOSTROPHE
    IN  <<q>> \o EscapeRepr(s, q) \o <<q>>

RECURSIVE Repr(_)
\* repr(v); str(v) differs from it only for a str
Repr(v) ==
    CASE v.t = "None" -> <<"N", "o", "n", "e">>
      [] v.t = "bool" -> IF v.v THEN <<"T", "r", "u", "e">> ELSE <<"F", "a", "l", "s", "e">>
      [] v.t = "int" -> IntText(v.v)
      [] v.t = "float" -> FloatText(v.v)
      [] v.t = "str" -> StrRepr(v.v)
      [] v.t = "object" -> v.v
      [] v.t = "cycle" -> <<"[", "[", ".", ".", ".", "]", "]">>
      [] v.t = "list" ->
            <<"[">> \o Join(<<",", " ">>, [i \in 1..Len(v.v) |-> Repr(v.v[i])]) \o <<"]">>
      [] v.t = "tuple" ->
            <<"(">> \o Join(<<",", " ">>, [i \in 1..Len(v.v) |-> Repr(v.v[i])])
                \o (IF Len(v.v) = 1 THEN <<",">> ELSE <<>>) \o <<")">>
      [] v.t = "dict" ->
            <<"{">> \o Join(<<",", " ">>,
                            [i \in 1..Len(v.v) |->
                                Repr(v.v[i][1]) \o <<":", " ">> \o Repr(v.v[i][2])])
                \o <<"}">>

\* str(v)
Str(v) == IF v.t = "str" THEN v.v ELSE Repr(v)

\* The outcome of a call that ends
Ended == pc \in {"returned", "raised"}

(***************************************************************************)
(* _check_plot_args                                                        *)
(***************************************************************************)
\* A Study, as far as this module reads it: Study._is_multi_objective()
Studies == [multi_objective : BOOLEAN]
\* The study argument: one Study, or a sequence of them
StudyArgs ==
    {[is_study |-> TRUE, value |-> <<s>>] : s \in Studies}
        \cup {[is_study |-> FALSE, value |-> q] : q \in SeqsBetween(Studies, 0, MaxStudies)}
DefaultTargetName == "Objective Value"

AnyMultiObjectiveFirstOnly(studies) ==
    Len(studies) > 0 /\ studies[1].multi_objective
\* any(study._is_multi_objective() for study in studies)
AnyMultiObjective(studies) ==
    \E i \in 1..Len(studies) : studies[i].multi_objective

InitCheckPlotArgs ==
    /\ fn = "_check_plot_args"
    /\ args \in [study : StudyArgs, target : {"None", "callable"},
                 target_name : {DefaultTargetName, "Accuracy"}]
    /\ locals = [studies |-> <<>>]
    /\ pc = "L55"
    /\ exc = "None"
    /\ warned = <<>>
    /\ ret = "unset"

\* lines 55-58: a single Study becomes a one-element list
CheckPlotArgs_Studies ==
    /\ fn = "_check_plot_args" /\ pc = "L55"
    /\ locals' = [studies |-> args.study.value]
    /\ pc' = "L60"
    /\ UNCHANGED <<fn, args, exc, warned, ret>>

\* lines 60-64
CheckPlotArgs_RequireTarget ==
    /\ fn = "_check_plot_args" /\ pc = "L60"
    /\ IF args.target = "None" /\ AnyMultiObjective(locals.studies)
       THEN pc' = "raised" /\ exc' = "ValueError"
       ELSE pc' = "L66" /\ exc' = exc
    /\ UNCHANGED <<fn, args, locals, warned, ret>>

\* lines 66-69, then the implicit return None
CheckPlotArgs_WarnDefaultName ==
    /\ fn = "_check_plot_args" /\ pc = "L66"
    /\ warned' = IF args.target # "None" /\ args.target_name = DefaultTargetName
                 THEN Append(warned, "target_name is the default value")
                 ELSE warned
    /\ pc' = "returned"
    /\ ret' = "None"
    /\ UNCHANGED <<fn, args, locals, exc>>

NextCheckPlotArgs ==
    \/ CheckPlotArgs_Studies
    \/ CheckPlotArgs_RequireTarget
    \/ CheckPlotArgs_WarnDefaultName

SpecCheckPlotArgs == InitCheckPlotArgs /\ [][NextCheckPlotArgs]_vars

\* C4: _check_plot_args raises (a ValueError, Python's invalid-argument error)
\* exactly when target is None and some supplied study is multi-objective; in
\* every other case it returns; and a call that has emitted the default-name
\* warning still runs to its return.
C4_RaisesIffNoTargetAndMultiObjective ==
    /\ Ended =>
        /\ (pc = "raised") <=>
              (args.target = "None" /\ \E i \in 1..Len(args.study.value) :
                                          args.study.value[i].multi_objective)
        /\ pc = "raised" => exc = "ValueError"
        /\ pc = "returned" => exc = "None"
    /\ ~Ended => ENABLED NextCheckPlotArgs
    /\ warned # <<>> =>
        /\ pc = "returned"
        /\ args.target # "None" /\ args.target_name = DefaultTargetName
    /\ (pc = "returned" /\ args.target # "None" /\ args.target_name = DefaultTargetName)
          => Len(warned) = 1

C4_Witness ==
    /\ fn = "_check_plot_args" /\ pc = "raised"
    /\ ~args.study.is_study /\ Len(args.study.value) = 3
    /\ ~args.study.value[1].multi_objective /\ args.study.value[3].multi_objective

(***************************************************************************)
(* _preprocess_trial_params                                                *)
(***************************************************************************)
ParamNames == {"x", "y"}

\* The distributions: Float and Int carry a log flag, Categorical its choices;
\* "Other" is a distribution of none of the three classes.
FloatDistribution(log) == [kind |-> "Float", log |-> log]
IntDistribution(log) == [kind |-> "Int", log |-> log]
CategoricalDistribution(choices) == [kind |-> "Categorical", choices |-> choices]
OtherDistribution == [kind |-> "Other"]
Distributions ==
    {FloatDistribution(TRUE), FloatDistribution(FALSE), IntDistribution(TRUE),
     CategoricalDistribution(<<PyInt(1), PyFloat("1.5")>>),
     CategoricalDistribution(<<PyInt(1), PyBool(TRUE)>>),
     OtherDistribution}

\* trial.distributions of one trial (a trial that declares both names declares
\* x first), and the trial lists of the model
TrialDistributions == {d \in Dicts(ParamNames, Distributions) :
                          Len(d) = 2 => d[1][1] = "x"}
PreprocessTrials == SeqsBetween([distributions : TrialDistributions], 0, MaxTrials)

\* A dict as a function; {} is the function of empty domain
EmptyDict == <<>>
SetItem(d, key, value) == [k \in DOMAIN d \cup {key} |-> IF k = key THEN value ELSE d[k]]

\* line 85: isinstance(dist, (FloatDistribution, IntDistribution)) and dist.log
LogScaleOf(dist) == dist.kind \in {"Float", "Int"} /\ dist.log

AllChoicesNumericalIgnoringBool(choices) ==
    \A i \in 1..Len(choices) : IsIntOrFloat(choices[i])
\* lines 92-94: all(isinstance(v, (int, float)) and not isinstance(v, bool) ...)
AllChoicesNumerical(choices) ==
    \A i \in 1..Len(choices) : IsIntOrFloat(choices[i]) /\ ~IsBool(choices[i])

WriteAlways(table, param) == TRUE
\* lines 84 and 88: param not in <table>
NotIn(table, param) == param \notin DOMAIN table

\* lines 84-85
SetLogScale(is_log_scale, param, dist) ==
    IF NotIn(is_log_scale, param)
    THEN SetItem(is_log_scale, param, LogScaleOf(dist))
    ELSE is_log_scale

SetNumericalNoAssert(is_numerical, param, dist) ==
    IF NotIn(is_numerical, param) /\ dist.kind # "Other"
    THEN [failed |-> FALSE,
          table |-> SetItem(is_numerical, param,
                            dist.kind \in {"Int", "Float"}
                                \/ AllChoicesNumerical(dist.choices))]
    ELSE [failed |-> FALSE, table |-> is_numerical]
\* lines 88-96: the new is_numerical, or the failed assertion (assert
\* statements are executed: the interpreter does not run with -O)
SetNumerical(is_numerical, param, dist) ==
    IF NotIn(is_numerical, param)
    THEN CASE dist.kind \in {"Int", "Float"} ->
                  [failed |-> FALSE, table |-> SetItem(is_numerical, param, TRUE)]
           [] dist.kind = "Categorical" ->
                  [failed |-> FALSE,
                   table |-> SetItem(is_numerical, param, AllChoicesNumerical(dist.choices))]
           [] OTHER -> [failed |-> TRUE, table |-> is_numerical]
    ELSE [failed |-> FALSE, table |-> is_numerical]

InitPreprocess ==
    /\ fn = "_preprocess_trial_params"
    /\ args \in [trials : PreprocessTrials]
    /\ locals = [is_log_scale |-> EmptyDict, is_numerical |-> EmptyDict, t |-> 1, k |-> 1]
    /\ pc = "L81"
    /\ exc = "None"
    /\ warned = <<>>
    /\ ret = "unset"

\* lines 82-96: one item of trial.distributions.items()
Preprocess_Item ==
    /\ fn = "_preprocess_trial_params" /\ pc = "L81"
    /\ locals.t <= Len(args.trials)
    /\ locals.k <= Len(args.trials[locals.t].distributions)
    /\ LET item == args.trials[locals.t].distributions[locals.k]
           log == SetLogScale(locals.is_log_scale, item[1], item[2])
           num == SetNumerical(locals.is_numerical, item[1], item[2])
       IN  /\ locals' = [locals EXCEPT !.is_log_scale = log,
                                       !.is_numerical = num.table,
                                       !.k = IF num.failed THEN @ ELSE @ + 1]
           /\ IF num.failed
              THEN pc' = "raised" /\ exc' = "AssertionError"
              ELSE pc' = pc /\ exc' = exc
    /\ UNCHANGED <<fn, args, warned, ret>>

\* line 81: the items of this trial are exhausted, on to the next trial
Preprocess_NextTrial ==
    /\ fn = "_preprocess_trial_params" /\ pc = "L81"
    /\ locals.t <= Len(args.trials)
    /\ locals.k > Len(args.trials[locals.t].distributions)
    /\ locals' = [locals EXCEPT !.t = @ + 1, !.k = 1]
    /\ UNCHANGED <<fn, args, pc, exc, warned, ret>>

\* line 98
Preprocess_Return ==
    /\ fn = "_preprocess_trial_params" /\ pc = "L81"
    /\ locals.t > Len(args.trials)
    /\ pc' = "returned"
    /\ ret' = <<locals.is_log_scale, locals.is_numerical>>
    /\ UNCHANGED <<fn, args, locals, exc, warned>>

NextPreprocess ==
    \/ Preprocess_Item
    \/ Preprocess_NextTrial
    \/ Preprocess_Return

SpecPreprocess == InitPreprocess /\ [][NextPreprocess]_vars

\* The trials (by index) that declare p, and the first of them
Declaring(trials, p) == {i \in 1..Len(trials) : p \in Keys(trials[i].distributions)}
FirstDeclaring(trials, p) ==
    CHOOSE i \in Declaring(trials, p) : \A j \in Declaring(trials, p) : i <= j
FirstDistribution(trials, p) == Lookup(trials[FirstDeclaring(trials, p)].distributions, p)
DeclaredNames(trials) == {p \in ParamNames : Declaring(trials, p) # {}}

\* The numerical classification of a distribution, as the documentation
\* states it: Float/Int, or Categorical whose every choice is a real number
\* and not a boolean
IsRealNotBool(v) == v.t \in {"int", "float"}
ClassifiedNumerical(dist) ==
    \/ dist.kind \in {"Float", "Int"}
    \/ dist.kind = "Categorical" /\ \A i \in 1..Len(dist.choices) : IsRealNotBool(dist.choices[i])
ClassifiedLogScale(dist) ==
    IF dist.kind \in {"Float", "Int"} THEN dist.log ELSE FALSE

\* C5: an entry of is_log_scale or is_numerical, once written, is never
\* overwritten or removed by a later step of the scan, and the returned value
\* for p is the classification of p's distribution in the first trial (in list
\* order) that declares p.
C5_FirstSeenWins ==
    /\ [][\A p \in ParamNames :
            /\ p \in DOMAIN locals.is_log_scale =>
                  /\ p \in DOMAIN locals'.is_log_scale
                  /\ locals'.is_log_scale[p] = locals.is_log_scale[p]
            /\ p \in DOMAIN locals.is_numerical =>
                  /\ p \in DOMAIN locals'.is_numerical
                  /\ locals'.is_numerical[p] = locals.is_numerical[p]]_vars
    /\ [](pc = "returned" =>
            \A p \in DeclaredNames(args.trials) :
                /\ ret[1][p] = ClassifiedLogScale(FirstDistribution(args.trials, p))
                /\ ret[2][p] = ClassifiedNumerical(FirstDistribution(args.trials, p)))

\* Float log=True in trial 0, Float log=False in trial 1: is_log_scale['x'] is True
C5_Witness ==
    /\ fn = "_preprocess_trial_params" /\ pc = "returned"
    /\ Len(args.trials) = 2
    /\ args.trials[1].distributions = <<(<<"x", FloatDistribution(TRUE)>>)>>
    /\ args.trials[2].distributions = <<(<<"x", FloatDistribution(FALSE)>>)>>
    /\ ret[1]["x"] = TRUE

\* Some trial declares a distribution that is none of Float, Int, Categorical
SomeOtherKind(trials) ==
    \E i \in 1..Len(trials) : \E k \in 1..Len(trials[i].distributions) :
        trials[i].distributions[k][2].kind = "Other"
\* The first declaration of some name is of another kind
SomeFirstOtherKind(trials) ==
    \E p \in DeclaredNames(trials) : FirstDistribution(trials, p).kind = "Other"

\* C9 as stated: is_numerical[p] follows the first-seen distribution of p, and
\* whenever any trial declares a distribution of another kind the call fails,
\* also under a name an earlier trial has classified.
C9_AnyOtherKindFails ==
    Ended =>
        /\ SomeOtherKind(args.trials) => pc = "raised"
        /\ pc = "returned" =>
              \A p \in DeclaredNames(args.trials) :
                  ret[2][p] = ClassifiedNumerical(FirstDistribution(args.trials, p))

\* C9 as amended: is_numerical[p] follows the first-seen distribution of p, and
\* the call fails (returning no mappings) exactly when the first declaration
\* of some name is of another kind; a distribution of another kind under a
\* name that an earlier trial has classified is skipped.
C9_FirstOtherKindFails ==
    /\ Ended =>
        /\ (pc = "raised") <=> SomeFirstOtherKind(args.trials)
        /\ pc = "raised" => exc = "AssertionError" /\ ret = "unset"
        /\ pc = "returned" =>
              /\ DOMAIN ret[2] = DeclaredNames(args.trials)
              /\ \A p \in DeclaredNames(args.trials) :
                    ret[2][p] = ClassifiedNumerical(FirstDistribution(args.trials, p))
    /\ ~Ended => ENABLED NextPreprocess

\* A later trial declares x with a distribution of another kind, the call
\* returns, and a Categorical with a boolean choice is classified not numerical
C9_Witness ==
    /\ fn = "_preprocess_trial_params" /\ pc = "returned"
    /\ Len(args.trials) = 2
    /\ args.trials[1].distributions =
          <<(<<"x", FloatDistribution(FALSE)>>),
            (<<"y", CategoricalDistribution(<<PyInt(1), PyBool(TRUE)>>)>>)>>
    /\ args.trials[2].distributions = <<(<<"x", OtherDistribution>>)>>
    /\ ret[2] = [p \in {"x", "y"} |-> p = "x"]

\* The names declared by the items the scan has completed
ScannedNames ==
    UNION {Keys(args.trials[i].distributions) : i \in 1..(locals.t - 1)}
      \cup (IF locals.t <= Len(args.trials)
            THEN {args.trials[locals.t].distributions[k][1] : k \in 1..(locals.k - 1)}
            ELSE {})

\* C10: after every step of the scan that completes without failure, and in the
\* returned pair, is_log_scale and is_numerical have the same key set, the
\* names declared by the distributions scanned so far, and is_log_scale[p]
\* implies is_numerical[p].
C10_SameKeysLogImpliesNumerical ==
    /\ pc # "raised" =>
        /\ DOMAIN locals.is_log_scale = DOMAIN locals.is_numerical
        /\ DOMAIN locals.is_log_scale = ScannedNames
        /\ \A p \in DOMAIN locals.is_log_scale :
              locals.is_log_scale[p] => locals.is_numerical[p]
    /\ pc = "returned" =>
        /\ DOMAIN ret[1] = DOMAIN ret[2]
        /\ DOMAIN ret[1] = DeclaredNames(args.trials)
        /\ \A p \in DOMAIN ret[1] : ret[1][p] => ret[2][p]

\* Mid-scan, after the first trial: x is log-scaled and numerical, y is neither
C10_Witness ==
    /\ fn = "_preprocess_trial_params" /\ pc = "L81"
    /\ locals.t = 2 /\ locals.k = 1 /\ Len(args.trials) = 2
    /\ DOMAIN locals.is_log_scale = {"x", "y"}
    /\ locals.is_log_scale["x"] /\ locals.is_numerical["x"]
    /\ ~locals.is_log_scale["y"] /\ ~locals.is_numerical["y"]

(***************************************************************************)
(* _is_log_scale, _is_numerical, _get_param_values                         *)
(***************************************************************************)
\* dict.get(key, default) on a dict held as a function
Get(d, key, default) == IF key \in DOMAIN d THEN d[key] ELSE default

\* line 100-101
_is_log_scale(trials, param, is_log_scale) == Get(is_log_scale, param, FALSE)
\* line 103-104
_is_numerical(trials, param, is_numerical) == Get(is_numerical, param, FALSE)

\* The parameters of _is_numerical (line 103), none with a default
IsNumericalParameters == <<"trials", "param", "is_numerical">>

\* Python binds a call's positional arguments to the parameters: a required
\* parameter left without an argument is a TypeError
Binds(parameters, arguments) == Len(arguments) = Len(parameters)

ParamValues == {PyInt(1), PyFloat("1.5"), PyStr(<<"a">>)}
\* trial.params of one trial, and the trial lists of the model
TrialParams == {d \in Dicts(ParamNames, ParamValues) : Len(d) = 2 => d[1][1] = "x"}
ParamValueTrials == SeqsBetween([params : TrialParams], 0, MaxTrials)

InitGetParamValues ==
    /\ fn = "_get_param_values"
    /\ args \in [trials : ParamValueTrials, p_name : ParamNames \cup {"z"}]
    /\ locals = [values |-> <<>>]
    /\ pc = "L107"
    /\ exc = "None"
    /\ warned = <<>>
    /\ ret = "unset"

RECURSIVE ValuesOf(_, _)
\* line 107: [t.params[p_name] for t in trials if p_name in t.params]
ValuesOf(trials, p_name) ==
    IF trials = <<>> THEN <<>>
    ELSE (IF p_name \in Keys(Head(trials).params)
          THEN <<Lookup(Head(trials).params, p_name)>> ELSE <<>>)
            \o ValuesOf(Tail(trials), p_name)

\* line 107
GetParamValues_Values ==
    /\ fn = "_get_param_values" /\ pc = "L107"
    /\ locals' = [values |-> ValuesOf(args.trials, args.p_name)]
    /\ pc' = "L108"
    /\ UNCHANGED <<fn, args, exc, warned, ret>>

\* lines 108-110: the call _is_numerical(trials, p_name), then the return
GetParamValues_Return ==
    /\ fn = "_get_param_values" /\ pc = "L108"
    /\ LET arguments == <<args.trials, args.p_name>>
       IN  IF ~Binds(IsNumericalParameters, arguments)
           THEN pc' = "raised" /\ exc' = "TypeError" /\ ret' = ret
           ELSE /\ pc' = "returned" /\ exc' = exc
                /\ ret' = IF _is_numerical(arguments[1], arguments[2], arguments[3])
                          THEN locals.values
                          ELSE [i \in 1..Len(locals.values) |-> PyStr(Str(locals.values[i]))]
    /\ UNCHANGED <<fn, args, locals, warned>>

NextGetParamValues ==
    \/ GetParamValues_Values
    \/ GetParamValues_Return

SpecGetParamValues == InitGetParamValues /\ [][NextGetParamValues]_vars

\* C1: _get_param_values(trials, p) returns, without raising, the values
\* t.params[p] of exactly the trials that define p, in input order (as they are
\* or each as its text, by p's classification).
C1_ReturnsValuesInOrder ==
    /\ pc # "raised"
    /\ pc = "returned" =>
          LET values == ValuesOf(args.trials, args.p_name)
          IN  ret \in {values, [i \in 1..Len(values) |-> PyStr(Str(values[i]))]}

(***************************************************************************)
(* _get_skipped_trial_numbers                                              *)
(***************************************************************************)
TrialNumbers == {0, 1}
SkippedTrials ==
    SeqsBetween([number : TrialNumbers,
                 params : {d \in Dicts(ParamNames, {PyInt(1)}) :
                              Len(d) = 2 => d[1][1] = "x"}], 0, MaxTrials)

IsPresent(params, used_param) == used_param \in Keys(params)
\* line 134: used_param not in trial.params.keys()
IsMissing(params, used_param) == used_param \notin Keys(params)

InitSkipped ==
    /\ fn = "_get_skipped_trial_numbers"
    /\ args \in [trials : SkippedTrials,
                 used_param_names : SeqsBetween(ParamNames, 0, MaxUsedParams)]
    /\ locals = [skipped_trial_numbers |-> {}, i |-> 1, j |-> 1]
    /\ pc = "L132"
    /\ exc = "None"
    /\ warned = <<>>
    /\ ret = "unset"

\* lines 133-136: one used_param of the inner loop; a missing one adds the
\* trial's number and breaks to the next trial
Skipped_CheckParam ==
    /\ fn = "_get_skipped_trial_numbers" /\ pc = "L132"
    /\ locals.i <= Len(args.trials)
    /\ locals.j <= Len(args.used_param_names)
    /\ LET trial == args.trials[locals.i]
       IN  locals' =
             IF IsMissing(trial.params, args.used_param_names[locals.j])
             THEN [skipped_trial_numbers |-> locals.skipped_trial_numbers \cup {trial.number},
                   i |-> locals.i + 1, j |-> 1]
             ELSE [locals EXCEPT !.j = @ + 1]
    /\ UNCHANGED <<fn, args, pc, exc, warned, ret>>

\* lines 132-133: the inner loop ran out without a break
Skipped_NextTrial ==
    /\ fn = "_get_skipped_trial_numbers" /\ pc = "L132"
    /\ locals.i <= Len(args.trials)
    /\ locals.j > Len(args.used_param_names)
    /\ locals' = [locals EXCEPT !.i = @ + 1, !.j = 1]
    /\ UNCHANGED <<fn, args, pc, exc, warned, ret>>

\* line 137
Skipped_Return ==
    /\ fn = "_get_skipped_trial_numbers" /\ pc = "L132"
    /\ locals.i > Len(args.trials)
    /\ pc' = "returned"
    /\ ret' = locals.skipped_trial_numbers
    /\ UNCHANGED <<fn, args, locals, exc, warned>>

NextSkipped ==
    \/ Skipped_CheckParam
    \/ Skipped_NextTrial
    \/ Skipped_Return

SpecSkipped == InitSkipped /\ [][NextSkipped]_vars

\* Trial i lacks at least one of the required names
Lacks(i) ==
    \E j \in 1..Len(args.used_param_names) :
        \A k \in 1..Len(args.trials[i].params) :
            args.trials[i].params[k][1] # args.used_param_names[j]

\* C2: _get_skipped_trial_numbers always returns, and returns exactly the
\* numbers of the trials that lack a required name; the number of a trial with
\* every required name is in the result only if another trial of the same
\* number lacks one; with no required name the result is empty.
C2_SkippedAreExactlyTheLacking ==
    /\ pc # "raised"
    /\ ~Ended => ENABLED NextSkipped
    /\ pc = "returned" =>
        /\ ret = {args.trials[i].number : i \in {i \in 1..Len(args.trials) : Lacks(i)}}
        /\ \A i \in 1..Len(args.trials) :
              (~Lacks(i) /\ args.trials[i].number \in ret) =>
                  \E h \in 1..Len(args.trials) :
                      h # i /\ Lacks(h) /\ args.trials[h].number = args.trials[i].number
        /\ args.used_param_names = <<>> => ret = {}

\* Two trials numbered 1: the first has both required names, the second lacks
\* y, so 1 is in the result; the required names are x then y
C2_Witness ==
    /\ fn = "_get_skipped_trial_numbers" /\ pc = "returned"
    /\ args.used_param_names = <<"x", "y">>
    /\ Len(args.trials) = 2
    /\ args.trials[1].number = 1 /\ args.trials[2].number = 1
    /\ Keys(args.trials[1].params) = {"x", "y"}
    /\ Keys(args.trials[2].params) = {"x"}
    /\ ret = {1}

(***************************************************************************)
(* _filter_nonfinite                                                       *)
(***************************************************************************)
\* The texts float() parses, with the float each gives; any other str is a
\* ValueError
NumericTexts == {<<"1", ".", "5">>, <<"i", "n", "f">>, <<"n", "a", "n">>}
ParseFloat(s) ==
    CASE s = <<"1", ".", "5">> -> "1.5"
      [] s = <<"i", "n", "f">> -> "inf"
      [] s = <<"n", "a", "n">> -> "nan"

\* float(value): the float, or the exception raised.  The ints of the model
\* are 1 and 2; True is 1.0.
Float(value) ==
    CASE value.t = "float" -> [raised |-> "None", value |-> value]
      [] value.t = "int" ->
            [raised |-> "None", value |-> PyFloat(IF value.v = 2 THEN "2.0" ELSE "1.0")]
      [] value.t = "bool" ->
            [raised |-> "None", value |-> PyFloat("1.0")]
      [] value.t = "str" ->
            IF value.v \in NumericTexts
            THEN [raised |-> "None", value |-> PyFloat(ParseFloat(value.v))]
            ELSE [raised |-> "ValueError", value |-> value]
      [] OTHER -> [raised |-> "TypeError", value |-> value]

IsNotNaN(value) == value.v # "nan"
\* line 172: np.isfinite(value) of a float
IsFinite(value) == value.v \notin {"nan", "inf", "-inf"}

\* The target accessor of the model reads a user attribute of the trial
ScoreTarget == "lambda t: t.user_attrs['score']"
\* lines 149-158: target(trial), where target None stands for t.value
ResolveTarget(target, trial) ==
    IF target = "None" THEN trial.value ELSE trial.user_attrs.score

TrialValues == {PyFloat("1.5"), PyFloat("nan"), PyFloat("inf"), PyFloat("-inf"),
                PyNone, PyStr(<<"a">>)}
TrialScores == {PyInt(2), PyFloat("inf"), PyStr(<<"a">>)}
\* Trial lists; a trial's number is its position, counted from 0
FilterTrials ==
    UNION {{[i \in 1..n |-> [number |-> i - 1, value |-> q[i].value,
                             user_attrs |-> [score |-> q[i].score]]] :
               q \in [1..n -> [value : TrialValues, score : TrialScores]]} :
           n \in 0..MaxTrials}

InitFilter ==
    /\ fn = "_filter_nonfinite"
    /\ args \in [trials : FilterTrials, target : {"None", ScoreTarget},
                 with_message : BOOLEAN]
    /\ locals = [filtered_trials |-> <<>>, i |-> 1, value |-> PyNone, error |-> "None"]
    /\ pc = "L157"
    /\ exc = "None"
    /\ warned = <<>>
    /\ ret = "unset"

\* lines 157-165: value = target(trial), then float(value) under the try
Filter_Convert ==
    /\ fn = "_filter_nonfinite" /\ pc = "L157"
    /\ locals.i <= Len(args.trials)
    /\ LET value == ResolveTarget(args.target, args.trials[locals.i])
           converted == Float(value)
       IN  IF converted.raised = "None"
           THEN /\ locals' = [locals EXCEPT !.value = converted.value]
                /\ pc' = "L172"
           ELSE /\ locals' = [locals EXCEPT !.value = value, !.error = converted.raised]
                /\ pc' = "L166"
    /\ UNCHANGED <<fn, args, exc, warned, ret>>

\* lines 166-168: the warning of the except clause
Filter_WarnCast ==
    /\ fn = "_filter_nonfinite" /\ pc = "L166"
    /\ warned' = Append(warned, [by |-> "warnings.warn",
                                 trial |-> args.trials[locals.i].number,
                                 value |-> Repr(locals.value)])
    /\ pc' = "L169"
    /\ UNCHANGED <<fn, args, locals, exc, ret>>

Swallow(error) == [pc |-> "L157", exc |-> "None", skip |-> 1]
\* line 169: raise, which re-raises the exception being handled
Reraise(error) == [pc |-> "raised", exc |-> error, skip |-> 0]

\* line 169
Filter_Reraise ==
    /\ fn = "_filter_nonfinite" /\ pc = "L169"
    /\ LET out == Reraise(locals.error)
       IN  /\ pc' = out.pc
           /\ exc' = out.exc
           /\ locals' = [locals EXCEPT !.i = @ + out.skip]
    /\ UNCHANGED <<fn, args, warned, ret>>

\* lines 172-179: a non-finite value drops the trial (logging it if
\* with_message), a finite one keeps it
Filter_KeepOrDrop ==
    /\ fn = "_filter_nonfinite" /\ pc = "L172"
    /\ LET trial == args.trials[locals.i]
       IN  IF ~IsFinite(locals.value)
           THEN /\ warned' = IF args.with_message
                             THEN Append(warned, [by |-> "_logger.warning",
                                                  trial |-> trial.number,
                                                  value |-> Repr(locals.value)])
                             ELSE warned
                /\ locals' = [locals EXCEPT !.i = @ + 1]
           ELSE /\ warned' = warned
                /\ locals' = [locals EXCEPT !.i = @ + 1,
                                            !.filtered_trials = Append(@, trial)]
    /\ pc' = "L157"
    /\ UNCHANGED <<fn, args, exc, ret>>

\* line 181
Filter_Return ==
    /\ fn = "_filter_nonfinite" /\ pc = "L157"
    /\ locals.i > Len(args.trials)
    /\ pc' = "returned"
    /\ ret' = locals.filtered_trials
    /\ UNCHANGED <<fn, args, locals, exc, warned>>

NextFilter ==
    \/ Filter_Convert
    \/ Filter_WarnCast
    \/ Filter_Reraise
    \/ Filter_KeepOrDrop
    \/ Filter_Return

SpecFilter == InitFilter /\ [][NextFilter]_vars

\* The resolved target of input trial i: t.value when target is None,
\* otherwise target(t)
Resolved(i) ==
    IF args.target = "None" THEN args.trials[i].value ELSE args.trials[i].user_attrs.score
IsNaNOrInfinite(v) == v.t = "float" /\ v.v \in {"nan", "inf", "-inf"}
IsFiniteNumber(v) == v.t \in {"int", "float"} /\ ~IsNaNOrInfinite(v)
\* Neither a number nor a text that reads as one
IsNotConvertible(v) == v.t = "None" \/ (v.t = "str" /\ v.v \notin NumericTexts)

\* sub is a subsequence of full: some strictly increasing choice of positions
IsSubsequence(sub, full) ==
    \E f \in [1..Len(sub) -> 1..Len(full)] :
        /\ \A a, b \in 1..Len(sub) : a < b => f[a] < f[b]
        /\ \A a \in 1..Len(sub) : sub[a] = full[f[a]]

\* C3: whenever _filter_nonfinite returns, its output is a subsequence of the
\* input, holds no trial whose resolved target is NaN or +/-infinity, and
\* holds every input trial whose resolved target is finite.
C3_ReturnsTheFiniteSubsequence ==
    pc = "returned" =>
        /\ IsSubsequence(ret, args.trials)
        /\ \A i \in 1..Len(args.trials) :
              /\ IsNaNOrInfinite(Resolved(i)) =>
                    \A k \in 1..Len(ret) : ret[k] # args.trials[i]
              /\ IsFiniteNumber(Resolved(i)) =>
                    \E k \in 1..Len(ret) : ret[k] = args.trials[i]

\* [finite, inf] under target None returns the first trial alone, while under
\* the accessor (scores 2 and 2) both would stay
C3_Witness ==
    /\ fn = "_filter_nonfinite" /\ pc = "returned"
    /\ args.target = "None" /\ Len(args.trials) = 2
    /\ args.trials[1].value = PyFloat("1.5") /\ args.trials[2].value = PyFloat("inf")
    /\ args.trials[2].user_attrs.score = PyInt(2)
    /\ ret = <<args.trials[1]>>

\* The input trials whose resolved target cannot be converted
NotConvertible == {i \in 1..Len(args.trials) : IsNotConvertible(Resolved(i))}

\* C6: when some trial's resolved target cannot be converted to a real number
\* (None included), the call emits a warning naming the first such trial and
\* then ends with the TypeError/ValueError: the warning comes before the
\* raise, nothing is returned, and the failure is not swallowed.
C6_WarnsThenPropagates ==
    /\ Ended => ((pc = "raised") <=> NotConvertible # {})
    /\ ~Ended => ENABLED NextFilter
    /\ pc \in {"L169", "raised"} =>
        LET first == CHOOSE i \in NotConvertible : \A h \in NotConvertible : i <= h
        IN  /\ warned # <<>>
            /\ warned[Len(warned)].by = "warnings.warn"
            /\ warned[Len(warned)].trial = args.trials[first].number
            /\ locals.error = (IF Resolved(first) = PyNone THEN "TypeError" ELSE "ValueError")
    /\ pc = "raised" =>
        /\ exc = locals.error
        /\ ret = "unset"
        /\ ~ENABLED NextFilter

\* [finite, None] under target None: trial 0 was already kept when trial 1
\* raises the TypeError, and no list is returned
C6_Witness ==
    /\ fn = "_filter_nonfinite" /\ pc = "raised" /\ exc = "TypeError"
    /\ args.target = "None" /\ Len(args.trials) = 2
    /\ args.trials[1].value = PyFloat("1.5") /\ args.trials[2].value = PyNone
    /\ Len(locals.filtered_trials) = 1
    /\ Len(warned) = 1

(***************************************************************************)
(* json.dumps and json.loads, on the values of the model.  The module calls *)
(* json.dumps only; json.loads is the decoder that the round-trip          *)
(* properties of _make_json_compatible and _make_hovertext are stated with.*)
(***************************************************************************)
NullText == <<"n", "u", "l", "l">>
TrueText == <<"t", "r", "u", "e">>
FalseText == <<"f", "a", "l", "s", "e">>
NaNText == <<"N", "a", "N">>
InfinityText == <<"I", "n", "f", "i", "n", "i", "t", "y">>
FiniteFloats == {"1.5", "2.0", "1.0"}

\* json's float text: float.__repr__, but NaN, Infinity, -Infinity
JsonFloatText(f) ==
    CASE f = "nan" -> NaNText
      [] f = "inf" -> InfinityText
      [] f = "-inf" -> <<"-">> \o InfinityText
      [] OTHER -> FloatText(f)

RECURSIVE JsonEscape(_)
\* The body of a JSON string: the quote, the backslash and the newline escaped
JsonEscape(s) ==
    IF s = <<>> THEN <<>>
    ELSE (CASE Head(s) = QUOTE -> <<BACKSLASH, QUOTE>>
            [] Head(s) = BACKSLASH -> <<BACKSLASH, BACKSLASH>>
            [] Head(s) = NL -> <<BACKSLASH, "n">>
            [] OTHER -> <<Head(s)>>) \o JsonEscape(Tail(s))
JsonStringText(s) == <<QUOTE>> \o JsonEscape(s) \o <<QUOTE>>

\* A dict key json accepts is a str, int, float, bool or None; it is written
\* as a string
IsJsonKey(k) == k.t \in {"str", "int", "float", "bool", "None"}
JsonKeyText(k) ==
    CASE k.t = "str" -> k.v
      [] k.t = "bool" -> IF k.v THEN TrueText ELSE FalseText
      [] k.t = "None" -> NullText
      [] k.t = "int" -> IntText(k.v)
      [] k.t = "float" -> JsonFloatText(k.v)

RECURSIVE FirstError(_)
\* The first exception in a sequence of outcomes, "None" when there is none
FirstError(errors) ==
    IF errors = <<>> THEN "None"
    ELSE IF Head(errors) # "None" THEN Head(errors)
    ELSE FirstError(Tail(errors))

RECURSIVE JsonError(_)
\* The exception json.dumps(v) raises: TypeError at the first object it cannot
\* encode, ValueError at a circular reference, "None" when it succeeds
JsonError(v) ==
    CASE v.t = "object" -> "TypeError"
      [] v.t = "cycle" -> "ValueError"
      [] v.t \in {"list", "tuple"} -> FirstError([i \in 1..Len(v.v) |-> JsonError(v.v[i])])
      [] v.t = "dict" ->
            FirstError([i \in 1..Len(v.v) |->
                          IF ~IsJsonKey(v.v[i][1]) THEN "TypeError" ELSE JsonError(v.v[i][2])])
      [] OTHER -> "None"

RECURSIVE Spaces(_)
Spaces(n) == IF n <= 0 THEN <<>> ELSE <<" ">> \o Spaces(n - 1)

\* The break before an item at nesting depth level: nothing without indent
NewlineIndent(pretty, indent, level) ==
    IF pretty THEN <<NL>> \o Spaces(indent * level) ELSE <<>>
\* ", " without indent, "," and a line break with it
ItemSeparator(pretty, indent, level) ==
    IF pretty THEN <<",">> \o NewlineIndent(pretty, indent, level) ELSE <<",", " ">>

RECURSIVE JsonText(_, _, _, _)
\* The text json.dumps writes for a value it can encode; pretty stands for
\* indent not None
JsonText(v, pretty, indent, level) ==
    CASE v.t = "None" -> NullText
      [] v.t = "bool" -> IF v.v THEN TrueText ELSE FalseText
      [] v.t = "int" -> IntText(v.v)
      [] v.t = "float" -> JsonFloatText(v.v)
      [] v.t = "str" -> JsonStringText(v.v)
      [] v.t \in {"list", "tuple"} ->
            IF v.v = <<>> THEN <<"[", "]">>
            ELSE <<"[">> \o NewlineIndent(pretty, indent, level + 1)
                   \o Join(ItemSeparator(pretty, indent, level + 1),
                           [i \in 1..Len(v.v) |-> JsonText(v.v[i], pretty, indent, level + 1)])
                   \o NewlineIndent(pretty, indent, level) \o <<"]">>
      [] v.t = "dict" ->
            IF v.v = <<>> THEN <<"{", "}">>
            ELSE <<"{">> \o NewlineIndent(pretty, indent, level + 1)
                   \o Join(ItemSeparator(pretty, indent, level + 1),
                           [i \in 1..Len(v.v) |->
                               JsonStringText(JsonKeyText(v.v[i][1])) \o <<":", " ">>
                                 \o JsonText(v.v[i][2], pretty, indent, level + 1)])
                   \o NewlineIndent(pretty, indent, level) \o <<"}">>

\* json.dumps(v) and json.dumps(v, indent=n): the exception or the text
JsonDumps(v) ==
    IF JsonError(v) # "None" THEN [raised |-> JsonError(v), text |-> <<>>]
    ELSE [raised |-> "None", text |-> JsonText(v, FALSE, 0, 0)]
JsonDumpsIndent(v, indent) ==
    IF JsonError(v) # "None" THEN [raised |-> JsonError(v), text |-> <<>>]
    ELSE [raised |-> "None", text |-> JsonText(v, TRUE, indent, 0)]

\* Whether text s starts with prefix
StartsWith(s, prefix) ==
    Len(s) >= Len(prefix) /\ SubSeq(s, 1, Len(prefix)) = prefix
Drop(s, n) == SubSeq(s, n + 1, Len(s))

RECURSIVE SkipWs(_)
SkipWs(s) == IF s # <<>> /\ Head(s) \in {" ", NL} THEN SkipWs(Tail(s)) ELSE s

ParseFail == [ok |-> FALSE, value |-> PyNone, rest |-> <<>>]
Parsed(value, rest) == [ok |-> TRUE, value |-> value, rest |-> rest]

RECURSIVE ScanString(_, _)
\* A JSON string from after its opening quote: a raw control character (the
\* newline) in it is an error, as is an unknown escape
ScanString(s, acc) ==
    IF s = <<>> THEN ParseFail
    ELSE CASE Head(s) = QUOTE -> Parsed(PyStr(acc), Tail(s))
           [] Head(s) = NL -> ParseFail
           [] Head(s) = BACKSLASH ->
                 IF Len(s) < 2 THEN ParseFail
                 ELSE CASE s[2] = "n" -> ScanString(Drop(s, 2), Append(acc, NL))
                        [] s[2] = QUOTE -> ScanString(Drop(s, 2), Append(acc, QUOTE))
                        [] s[2] = BACKSLASH -> ScanString(Drop(s, 2), Append(acc, BACKSLASH))
                        [] OTHER -> ParseFail
           [] OTHER -> ScanString(Tail(s), Append(acc, Head(s)))

DigitChars == {Digits[i] : i \in 1..Len(Digits)}
DigitValue(c) == (CHOOSE i \in 1..Len(Digits) : Digits[i] = c) - 1

RECURSIVE NumberPrefix(_)
\* The longest prefix of s made of the characters of a number
NumberPrefix(s) ==
    IF s # <<>> /\ Head(s) \in DigitChars \cup {"-", "."}
    THEN <<Head(s)>> \o NumberPrefix(Tail(s)) ELSE <<>>

RECURSIVE DigitsValue(_, _)
DigitsValue(s, acc) ==
    IF s = <<>> THEN acc ELSE DigitsValue(Tail(s), 10 * acc + DigitValue(Head(s)))

\* A JSON number: an int, or one of the floats of the model
ParseNumber(s) ==
    LET text == NumberPrefix(s)
        body == IF Head(text) = "-" THEN Tail(text) ELSE text
    IN  IF body = <<>> THEN ParseFail
        ELSE IF \A i \in 1..Len(body) : body[i] \in DigitChars
        THEN Parsed(PyInt(IF Head(text) = "-" THEN 0 - DigitsValue(body, 0)
                          ELSE DigitsValue(body, 0)), Drop(s, Len(text)))
        ELSE IF \E f \in FiniteFloats : FloatText(f) = text
        THEN Parsed(PyFloat(CHOOSE f \in FiniteFloats : FloatText(f) = text),
                    Drop(s, Len(text)))
        ELSE ParseFail

\* d[key] = value on a dict held as items: a repeated key keeps its place
SetDictItem(items, key, value) ==
    IF \E i \in 1..Len(items) : items[i][1] = key
    THEN [i \in 1..Len(items) |-> IF items[i][1] = key THEN <<key, value>> ELSE items[i]]
    ELSE Append(items, <<key, value>>)

RECURSIVE ParseValue(_)
RECURSIVE ParseItems(_, _)
RECURSIVE ParseMembers(_, _)

\* One JSON value at the head of s (after white space), and the rest
ParseValue(s0) ==
    LET s == SkipWs(s0)
    IN  IF s = <<>> THEN ParseFail
        ELSE CASE Head(s) = QUOTE -> ScanString(Tail(s), <<>>)
               [] Head(s) = "[" ->
                     LET t == SkipWs(Tail(s))
                     IN  IF t # <<>> /\ Head(t) = "]" THEN Parsed(PyList(<<>>), Tail(t))
                         ELSE ParseItems(Tail(s), <<>>)
               [] Head(s) = "{" ->
                     LET t == SkipWs(Tail(s))
                     IN  IF t # <<>> /\ Head(t) = "}" THEN Parsed(PyDict(<<>>), Tail(t))
                         ELSE ParseMembers(Tail(s), <<>>)
               [] StartsWith(s, NullText) -> Parsed(PyNone, Drop(s, Len(NullText)))
               [] StartsWith(s, TrueText) -> Parsed(PyBool(TRUE), Drop(s, Len(TrueText)))
               [] StartsWith(s, FalseText) -> Parsed(PyBool(FALSE), Drop(s, Len(FalseText)))
               [] StartsWith(s, NaNText) -> Parsed(PyFloat("nan"), Drop(s, Len(NaNText)))
               [] StartsWith(s, InfinityText) ->
                     Parsed(PyFloat("inf"), Drop(s, Len(InfinityText)))
               [] StartsWith(s, <<"-">> \o InfinityText) ->
                     Parsed(PyFloat("-inf"), Drop(s, Len(InfinityText) + 1))
               [] Head(s) \in DigitChars
                    \/ (Head(s) = "-" /\ ~StartsWith(s, <<"-">> \o InfinityText)) ->
                     ParseNumber(s)
               [] OTHER -> ParseFail

\* The items of an array, up to its closing bracket
ParseItems(s, acc) ==
    LET item == ParseValue(s)
        t == SkipWs(item.rest)
    IN  IF ~item.ok \/ t = <<>> THEN ParseFail
        ELSE CASE Head(t) = "," -> ParseItems(Tail(t), Append(acc, item.value))
               [] Head(t) = "]" -> Parsed(PyList(Append(acc, item.value)), Tail(t))
               [] OTHER -> ParseFail

\* The members of an object, up to its closing brace
ParseMembers(s, acc) ==
    LET t == SkipWs(s)
    IN  IF t = <<>> \/ Head(t) # QUOTE THEN ParseFail
        ELSE LET key == ScanString(Tail(t), <<>>)
                 u == SkipWs(key.rest)
             IN  IF ~key.ok \/ u = <<>> \/ Head(u) # ":" THEN ParseFail
                 ELSE LET member == ParseValue(Tail(u))
                          w == SkipWs(member.rest)
                          items == SetDictItem(acc, key.value, member.value)
                      IN  IF ~member.ok \/ w = <<>> THEN ParseFail
                          ELSE CASE Head(w) = "," -> ParseMembers(Tail(w), items)
                                 [] Head(w) = "}" -> Parsed(PyDict(items), Tail(w))
                                 [] OTHER -> ParseFail

\* json.loads(s): one value and nothing but white space after it
JsonLoads(s) ==
    LET parsed == ParseValue(s)
    IN  IF parsed.ok /\ SkipWs(parsed.rest) = <<>> THEN parsed ELSE ParseFail

(***************************************************************************)
(* _make_json_compatible                                                   *)
(***************************************************************************)
CatchesAny(error) == TRUE
\* line 192: except TypeError
Catches(error) == error = "TypeError"

\* lines 188-194 as a function: the value returned, or the exception that
\* leaves the call
_make_json_compatible(value) ==
    LET error == JsonDumps(value).raised
    IN  IF error = "None" THEN [raised |-> "None", value |-> value]
        ELSE IF Catches(error) THEN [raised |-> "None", value |-> PyStr(Str(value))]
        ELSE [raised |-> error, value |-> value]

BytesObject == PyObject(<<"b", APOSTROPHE, "a", APOSTROPHE>>)
JsonAtoms == {PyNone, PyBool(TRUE), PyInt(1), PyFloat("1.5"), PyStr(<<"a">>),
              BytesObject, PyCycle}
JsonValues ==
    JsonAtoms
      \cup {PyList(q) : q \in SeqsBetween(JsonAtoms, 0, MaxItems)}
      \cup {PyTuple(q) : q \in SeqsBetween(JsonAtoms, 0, MaxItems)}
      \cup {PyDict(<<(<<k, v>>)>>) : k \in {PyStr(<<"k">>), PyInt(1)}, v \in JsonAtoms}

InitJsonCompatible ==
    /\ fn = "_make_json_compatible"
    /\ args \in [value : JsonValues]
    /\ locals = [error |-> "None"]
    /\ pc = "L190"
    /\ exc = "None"
    /\ warned = <<>>
    /\ ret = "unset"

\* lines 189-192: json.dumps(value) under the try; an exception the except
\* clause does not catch leaves the call
JsonCompatible_Try ==
    /\ fn = "_make_json_compatible" /\ pc = "L190"
    /\ LET error == JsonDumps(args.value).raised
       IN  /\ locals' = [error |-> error]
           /\ IF error = "None" THEN pc' = "L191" /\ exc' = exc
              ELSE IF Catches(error) THEN pc' = "L194" /\ exc' = exc
              ELSE pc' = "raised" /\ exc' = error
    /\ UNCHANGED <<fn, args, warned, ret>>

\* line 191
JsonCompatible_ReturnValue ==
    /\ fn = "_make_json_compatible" /\ pc = "L191"
    /\ pc' = "returned"
    /\ ret' = args.value
    /\ UNCHANGED <<fn, args, locals, exc, warned>>

\* line 194
JsonCompatible_ReturnStr ==
    /\ fn = "_make_json_compatible" /\ pc = "L194"
    /\ pc' = "returned"
    /\ ret' = PyStr(Str(args.value))
    /\ UNCHANGED <<fn, args, locals, exc, warned>>

NextJsonCompatible ==
    \/ JsonCompatible_Try
    \/ JsonCompatible_ReturnValue
    \/ JsonCompatible_ReturnStr

SpecJsonCompatible == InitJsonCompatible /\ [][NextJsonCompatible]_vars

RECURSIVE JsonForm(_)
\* What JSON keeps of a value: a tuple becomes a list and a dict key a string
JsonForm(v) ==
    CASE v.t \in {"list", "tuple"} -> PyList([i \in 1..Len(v.v) |-> JsonForm(v.v[i])])
      [] v.t = "dict" ->
            PyDict([i \in 1..Len(v.v) |->
                      <<PyStr(JsonKeyText(v.v[i][1])), JsonForm(v.v[i][2])>>])
      [] OTHER -> v

\* C7 as stated: _make_json_compatible(x) never raises, and JSON-decoding (the
\* encoding of) its output reproduces x when x is directly encodable and
\* str(x) when it is not.
C7_RoundTrips ==
    Ended =>
        /\ pc = "returned"
        /\ LET back == JsonLoads(JsonDumps(ret).text)
           IN  /\ back.ok
               /\ back.value = (IF JsonError(args.value) = "None" THEN args.value
                                ELSE PyStr(Str(args.value)))

\* C7 as amended: the call returns x itself when json.dumps(x) succeeds and
\* str(x) when json.dumps(x) raises TypeError, and it raises the ValueError of
\* a circular reference; decoding the encoding of the output reproduces the
\* JSON form of x (tuples as lists, keys as strings), which is x only when x
\* is in that form already, or reproduces str(x).
C7_ReturnsValueOrStr ==
    /\ ~Ended => ENABLED NextJsonCompatible
    /\ Ended =>
        LET x == args.value
            error == JsonError(x)
        IN  /\ (pc = "raised") <=> (error = "ValueError")
            /\ pc = "raised" => exc = "ValueError" /\ ret = "unset"
            /\ (pc = "returned" /\ error = "None") =>
                  /\ ret = x
                  /\ JsonLoads(JsonDumps(ret).text) = Parsed(JsonForm(x), <<>>)
                  /\ (JsonLoads(JsonDumps(ret).text).value = x) <=> (JsonForm(x) = x)
            /\ (pc = "returned" /\ error = "TypeError") =>
                  /\ ret = PyStr(Str(x))
                  /\ JsonLoads(JsonDumps(ret).text) = Parsed(ret, <<>>)

\* (1, b'a') is not encodable and comes back as the text "(1, b'a')"
C7_Witness ==
    /\ fn = "_make_json_compatible" /\ pc = "returned"
    /\ args.value = PyTuple(<<PyInt(1), BytesObject>>)
    /\ ret = PyStr(<<"(", "1", ",", " ", "b", APOSTROPHE, "a", APOSTROPHE, ")">>)

(***************************************************************************)
(* _make_hovertext                                                         *)
(***************************************************************************)
BR == <<"<", "b", "r", ">">>
HovertextIndent == 2

\* The positions at which old occurs in text
Occurrences(text, old) ==
    {i \in 1..(Len(text) - Len(old) + 1) : SubSeq(text, i, i + Len(old) - 1) = old}

\* text.replace(old, new): every occurrence, left to right.  Neither "\n" nor
\* "<br>" can overlap itself, so every occurrence is replaced.
Replace(text, old, new) ==
    LET at == Occurrences(text, old)
    IN  Concat([i \in 1..Len(text) |->
                  IF i \in at THEN new
                  ELSE IF \E m \in at : m < i /\ i < m + Len(old) THEN <<>>
                  ELSE <<text[i]>>])

ReplaceFirst(text, old, new) ==
    LET at == Occurrences(text, old)
    IN  IF at = {} THEN text
        ELSE LET m == CHOOSE i \in at : \A j \in at : i <= j
             IN  SubSeq(text, 1, m - 1) \o new \o SubSeq(text, m + Len(old), Len(text))

BreakFirstLine(text) == ReplaceFirst(text, <<NL>>, BR)
\* line 209: text.replace("\n", "<br>")
BreakLines(text) == Replace(text, <<NL>>, BR)

NumberKey == PyStr(<<"n", "u", "m", "b", "e", "r">>)
ValuesKey == PyStr(<<"v", "a", "l", "u", "e", "s">>)
ParamsKey == PyStr(<<"p", "a", "r", "a", "m", "s">>)
UserAttrsKey == PyStr(<<"u", "s", "e", "r", "_", "a", "t", "t", "r", "s">>)

HoverValues == {PyNone, PyList(<<PyFloat("1.5")>>), PyList(<<PyFloat("1.5"), PyFloat("inf")>>)}
HoverParamValues == {PyInt(1), PyStr(<<"a">>), PyStr(BR), PyStr(<<"a", NL, "b">>),
                     PyStr(<<QUOTE, BACKSLASH, "n">>)}
HoverAttrValues == {PyInt(1), PyStr(BR), PyStr(<<"a", NL, "b">>), PyTuple(<<PyInt(1)>>),
                    BytesObject, PyObject(<<"b", APOSTROPHE>> \o BR \o <<APOSTROPHE>>),
                    PyCycle}
\* The trials: params and user_attrs hold at most one entry
HoverTrials ==
    [number : TrialNumbers,
     values : HoverValues,
     params : {PyDict(<<>>)} \cup {PyDict(<<(<<PyStr(<<"x">>), v>>)>>) : v \in HoverParamValues},
     user_attrs : {<<>>} \cup {<<(<<PyStr(<<"k">>), v>>)>> : v \in HoverAttrValues}]

InitHovertext ==
    /\ fn = "_make_hovertext"
    /\ args \in [trial : HoverTrials]
    /\ locals = [user_attrs |-> <<>>, document |-> PyNone, text |-> <<>>]
    /\ pc = "L198"
    /\ exc = "None"
    /\ warned = <<>>
    /\ ret = "unset"

\* line 198: {key: _make_json_compatible(value) for key, value in ...}; the
\* first conversion that raises leaves the call
Hovertext_UserAttrs ==
    /\ fn = "_make_hovertext" /\ pc = "L198"
    /\ LET items == args.trial.user_attrs
           converted == [i \in 1..Len(items) |-> _make_json_compatible(items[i][2])]
           error == FirstError([i \in 1..Len(items) |-> converted[i].raised])
       IN  IF error # "None"
           THEN pc' = "raised" /\ exc' = error /\ locals' = locals
           ELSE /\ pc' = "L199" /\ exc' = exc
                /\ locals' = [locals EXCEPT !.user_attrs =
                                [i \in 1..Len(items) |-> <<items[i][1], converted[i].value>>]]
    /\ UNCHANGED <<fn, args, warned, ret>>

\* lines 199-208: the document, with user_attrs only when non-empty, written
\* by json.dumps(..., indent=2)
Hovertext_Dumps ==
    /\ fn = "_make_hovertext" /\ pc = "L199"
    /\ LET user_attrs_dict ==
               IF locals.user_attrs # <<>>
               THEN <<(<<UserAttrsKey, PyDict(locals.user_attrs)>>)>> ELSE <<>>
           document ==
               PyDict(<<(<<NumberKey, PyInt(args.trial.number)>>),
                        (<<ValuesKey, args.trial.values>>),
                        (<<ParamsKey, args.trial.params>>)>> \o user_attrs_dict)
           dumped == JsonDumpsIndent(document, HovertextIndent)
       IN  IF dumped.raised # "None"
           THEN pc' = "raised" /\ exc' = dumped.raised /\ locals' = locals
           ELSE /\ pc' = "L209" /\ exc' = exc
                /\ locals' = [locals EXCEPT !.document = document, !.text = dumped.text]
    /\ UNCHANGED <<fn, args, warned, ret>>

\* line 209
Hovertext_Return ==
    /\ fn = "_make_hovertext" /\ pc = "L209"
    /\ pc' = "returned"
    /\ ret' = BreakLines(locals.text)
    /\ UNCHANGED <<fn, args, locals, exc, warned>>

NextHovertext ==
    \/ Hovertext_UserAttrs
    \/ Hovertext_Dumps
    \/ Hovertext_Return

SpecHovertext == InitHovertext /\ [][NextHovertext]_vars

HasKey(dict, key) == \E i \in 1..Len(dict.v) : dict.v[i][1] = key
ContainsBR(s) == \E i \in 1..Len(s) : StartsWith(Drop(s, i - 1), BR)

RECURSIVE StringsOf(_)
\* Every str inside a value, dict keys included
StringsOf(v) ==
    CASE v.t = "str" -> {v.v}
      [] v.t \in {"list", "tuple"} -> UNION {StringsOf(v.v[i]) : i \in 1..Len(v.v)}
      [] v.t = "dict" ->
            UNION {StringsOf(v.v[i][1]) \cup StringsOf(v.v[i][2]) : i \in 1..Len(v.v)}
      [] OTHER -> {}

\* The output with every "<br>" put back to a newline, JSON-decoded
DecodedBack == JsonLoads(Replace(ret, BR, <<NL>>))
\* A decoded document that holds the trial's number, values and params, and
\* the user_attrs key exactly when the trial has user attributes
ReproducesTrial(back) ==
    /\ back.ok
    /\ back.value.t = "dict"
    /\ HasKey(back.value, NumberKey) /\ HasKey(back.value, ValuesKey)
    /\ HasKey(back.value, ParamsKey)
    /\ Lookup(back.value.v, NumberKey) = PyInt(args.trial.number)
    /\ Lookup(back.value.v, ValuesKey) = args.trial.values
    /\ Lookup(back.value.v, ParamsKey) = args.trial.params
    /\ HasKey(back.value, UserAttrsKey) <=> (args.trial.user_attrs # <<>>)

\* C8 as stated: the output of _make_hovertext holds no literal newline, and
\* with every "<br>" put back to a newline it JSON-decodes to a document with
\* the trial's number, values and params (also when a string in it holds "<br>"
\* or a newline), with a user_attrs key exactly when user_attrs is non-empty.
C8_HovertextDecodesBack ==
    pc = "returned" => (NL \notin Chars(ret) /\ ReproducesTrial(DecodedBack))

\* C8 as amended: whenever _make_hovertext returns, its output holds no
\* literal newline and the document it wrote has a user_attrs key exactly when
\* the trial's user_attrs is non-empty; when no string of that document holds
\* "<br>", putting the newlines back and decoding reproduces the trial's
\* number, values and params (also when a string holds a newline); when one
\* does, the text with the newlines put back is not valid JSON.  The call
\* raises exactly when a user attribute holds a circular reference.
C8_HovertextDecodesBackUnlessBR ==
    /\ Ended =>
        ((pc = "raised") <=>
            \E i \in 1..Len(args.trial.user_attrs) :
                JsonError(args.trial.user_attrs[i][2]) = "ValueError")
    /\ pc = "returned" =>
        /\ NL \notin Chars(ret)
        /\ HasKey(locals.document, UserAttrsKey) <=> (args.trial.user_attrs # <<>>)
        /\ IF \E s \in StringsOf(locals.document) : ContainsBR(s)
           THEN ~DecodedBack.ok
           ELSE ReproducesTrial(DecodedBack)

\* A parameter value with a newline in it, a tuple as user attribute: the
\* output decodes back to the trial's number, values and params
C8_Witness ==
    /\ fn = "_make_hovertext" /\ pc = "returned"
    /\ args.trial.params = PyDict(<<(<<PyStr(<<"x">>), PyStr(<<"a", NL, "b">>)>>)>>)
    /\ args.trial.user_attrs = <<(<<PyStr(<<"k">>), PyTuple(<<PyInt(1)>>)>>)>>
    /\ args.trial.values = PyList(<<PyFloat("1.5"), PyFloat("inf")>>)
    /\ ReproducesTrial(DecodedBack)

====
